---- MODULE Spec2Model ----
(***************************************************************************)
(* Hospital accreditation survey reports: the in-memory report store, the  *)
(* create / update / read / upload request handlers with their middleware  *)
(* chains, and the detached post-create notification.                      *)
(*                                                                         *)
(* Node runs every handler of this code base to completion without         *)
(* yielding: the route's middleware call next() synchronously and neither  *)
(* the controllers nor the service functions await anything before their   *)
(* last store access.  One request is therefore one action.                *)
(*                                                                         *)
(* Dates are day numbers counted from 2024-01-01 (day 0).  An ISO date     *)
(* string of a request body is the record [iso |-> day]; a Date object is  *)
(* the bare day number.                                                    *)
(***************************************************************************)
EXTENDS Integers, Sequences, FiniteSets, TLC

VARIABLES sampleReports, now, notifications, updateCount, last

vars == <<sampleReports, now, notifications, updateCount, last>>

(***************************************************************************)
(* Bounds of the model.                                                    *)
(***************************************************************************)
MaxWrites == 2

MaxDeficiencies == 4

ProcessStart == 600

(***************************************************************************)
(* Dates.                                                                  *)
(***************************************************************************)
newDate(s) == s.iso

getFullYear(d) == IF d < 366 THEN 2024 ELSE 2025 + ((d - 366) \div 365)

DefaultCorrectiveActionDays == 30

(***************************************************************************)
(* Enumerations.                                                           *)
(***************************************************************************)
SurveyType == {"comprehensive", "medication_management", "infection_control", "patient_safety"}

SurveyStatus == {"compliant", "deficient", "immediate_jeopardy"}

AccreditationBody == {"Joint Commission", "ACHC", "DNV"}

DeficiencySeverity == {"immediate_jeopardy", "major", "minor"}

UserRole == {"reader", "editor", "admin"}

(***************************************************************************)
(* The store as the module is loaded.                                      *)
(***************************************************************************)
Deficiency(i, c, s, d) ==
  [id |-> i, standardCode |-> c, description |-> "finding " \o c, severity |-> s, dueDate |-> d]

initialReports ==
  << [id |-> "550e8400-e29b-41d4-a716-446655440100",
      facilityId |-> "mercy-general-hospital",
      surveyType |-> "infection_control",
      surveyDate |-> 196,
      leadSurveyor |-> "Dr. Sarah Johnson",
      surveyScope |-> <<"ICU", "Emergency Department", "Surgical Services", "Medical Floors">>,
      complianceScore |-> 78,
      status |-> "deficient",
      accreditationBody |-> "Joint Commission",
      deficiencies |-> << Deficiency("d100-1", "IC.01.01", "major", 258),
                          Deficiency("d100-2", "IC.02.01", "minor", 242),
                          Deficiency("d100-3", "IC.01.03", "immediate_jeopardy", 201) >>,
      correctiveActionDue |-> 258,
      followUpRequired |-> TRUE,
      surveyorNotes |-> <<"note-100">>,
      createdAt |-> 196,
      updatedAt |-> 199,
      version |-> 2],
     [id |-> "550e8400-e29b-41d4-a716-446655440101",
      facilityId |-> "st-marys-medical-center",
      surveyType |-> "medication_management",
      surveyDate |-> 171,
      leadSurveyor |-> "PharmD Lisa Chen",
      surveyScope |-> <<"Pharmacy", "ICU", "Emergency Department", "Medical/Surgical Units">>,
      complianceScore |-> 92,
      status |-> "compliant",
      accreditationBody |-> "Joint Commission",
      deficiencies |-> << Deficiency("d101-1", "MM.01.01", "minor", 232) >>,
      correctiveActionDue |-> 232,
      followUpRequired |-> FALSE,
      surveyorNotes |-> <<"note-101">>,
      createdAt |-> 171,
      updatedAt |-> 171,
      version |-> 1],
     [id |-> "550e8400-e29b-41d4-a716-446655440102",
      facilityId |-> "riverside-community-hospital",
      surveyType |-> "comprehensive",
      surveyDate |-> 130,
      leadSurveyor |-> "RN Michael Rodriguez",
      surveyScope |-> <<"All Departments", "Patient Safety", "Quality Management", "Leadership">>,
      complianceScore |-> 95,
      status |-> "compliant",
      accreditationBody |-> "ACHC",
      deficiencies |-> << >>,
      correctiveActionDue |-> 161,
      followUpRequired |-> FALSE,
      surveyorNotes |-> <<"note-102">>,
      createdAt |-> 130,
      updatedAt |-> 132,
      version |-> 1],
     [id |-> "550e8400-e29b-41d4-a716-446655440103",
      facilityId |-> "metro-general-hospital",
      surveyType |-> "patient_safety",
      surveyDate |-> 213,
      leadSurveyor |-> "Dr. Amanda Foster",
      surveyScope |-> <<"Surgery", "Emergency Department", "Radiology", "Laboratory">>,
      complianceScore |-> 65,
      status |-> "immediate_jeopardy",
      accreditationBody |-> "DNV",
      deficiencies |-> << Deficiency("d103-1", "PS.01.01", "immediate_jeopardy", 217),
                          Deficiency("d103-2", "PS.02.01", "major", 244),
                          Deficiency("d103-3", "PS.03.01", "major", 237),
                          Deficiency("d103-4", "PS.01.02", "minor", 227) >>,
      correctiveActionDue |-> 217,
      followUpRequired |-> TRUE,
      surveyorNotes |-> <<"note-103">>,
      createdAt |-> 213,
      updatedAt |-> 215,
      version |-> 3],
     [id |-> "550e8400-e29b-41d4-a716-446655440104",
      facilityId |-> "northside-medical-center",
      surveyType |-> "medication_management",
      surveyDate |-> 108,
      leadSurveyor |-> "PharmD Robert Kim",
      surveyScope |-> <<"Central Pharmacy", "ICU", "Pediatrics", "Oncology">>,
      complianceScore |-> 88,
      status |-> "deficient",
      accreditationBody |-> "Joint Commission",
      deficiencies |-> << Deficiency("d104-1", "MM.02.01", "major", 169),
                          Deficiency("d104-2", "MM.03.01", "major", 152),
                          Deficiency("d104-3", "MM.01.02", "minor", 150) >>,
      correctiveActionDue |-> 169,
      followUpRequired |-> TRUE,
      surveyorNotes |-> <<"note-104">>,
      createdAt |-> 108,
      updatedAt |-> 110,
      version |-> 1] >>

SampleIds == {initialReports[i].id : i \in 1..Len(initialReports)}

(***************************************************************************)
(* Repository functions over the store (an array scanned linearly).        *)
(***************************************************************************)
findIndex(store, id) ==
  LET hits == {i \in 1..Len(store) : store[i].id = id}
  IN  IF hits = {} THEN 0 ELSE CHOOSE i \in hits : \A j \in hits : i <= j

Exists(store, id) == findIndex(store, id) # 0

findReportById(store, id) == store[findIndex(store, id)]

findReportsByFacility(store, facilityId) ==
  SelectSeq(store, LAMBDA report : report.facilityId = facilityId)

createReport(store, report) == Append(store, report)

\* Faulty variant: the version moves on by two.
updateReport_SkipsVersion(store, id, updateData, clock) ==
  LET index == findIndex(store, id)
      existingReport == store[index]
  IN  [store EXCEPT ![index] =
         [updatedAt |-> clock, version |-> existingReport.version + 2]
           @@ updateData @@ existingReport]

\* Faulty variant: the version stays where it was.
updateReport_NoBump(store, id, updateData, clock) ==
  LET index == findIndex(store, id)
      existingReport == store[index]
  IN  [store EXCEPT ![index] = [updatedAt |-> clock] @@ updateData @@ existingReport]

updateReport(store, id, updateData, clock) ==
  LET index == findIndex(store, id)
      existingReport == store[index]
  IN  [store EXCEPT ![index] =
         [updatedAt |-> clock, version |-> existingReport.version + 1]
           @@ updateData @@ existingReport]

(***************************************************************************)
(* Authorization policy.                                                   *)
(***************************************************************************)
\* Faulty variant: an editor may also edit a report in immediate jeopardy.
checkStatusEditPermission_EditorOnJeopardy(userRole, reportStatus) ==
  CASE reportStatus = "immediate_jeopardy" -> userRole \in {"editor", "admin"}
    [] reportStatus = "deficient" -> userRole \in {"editor", "admin"}
    [] reportStatus = "compliant" -> userRole \in {"reader", "editor", "admin"}
    [] OTHER -> FALSE

checkStatusEditPermission(userRole, reportStatus) ==
  CASE reportStatus = "immediate_jeopardy" -> userRole = "admin"
    [] reportStatus = "deficient" -> userRole \in {"editor", "admin"}
    [] reportStatus = "compliant" -> userRole \in {"reader", "editor", "admin"}
    [] OTHER -> FALSE

getRequiredRoleForStatus(status) ==
  CASE status = "immediate_jeopardy" -> "admin"
    [] status = "deficient" -> "editor or admin"
    [] status = "compliant" -> "reader, editor, or admin"
    [] OTHER -> "unknown"

authorize(roles, userRole) == userRole \in roles

\* Faulty variant: readers are let through to create and upload.
CreateUploadRoles_WithReader == {"reader", "editor", "admin"}

CreateUploadRoles == {"editor", "admin"}

(***************************************************************************)
(* Request validation.  A request body is a function from the keys it      *)
(* carries to their values; zod's object schemas drop the keys they do not *)
(* name and reject a value outside a field's type.                         *)
(***************************************************************************)
WellFormedUuids == SampleIds \cup {"new-1", "new-2", "new-3", "550e8400-e29b-41d4-a716-446655449999"}

uuidSchema(id) == id \in WellFormedUuids

updateReportSchemaKeys ==
  {"surveyType", "leadSurveyor", "surveyScope", "complianceScore", "status",
   "correctiveActionDue", "followUpRequired"}

\* Faulty variant: the score is not held to its range.
updateReportSchemaValid_AnyScore(body) ==
  /\ "surveyType" \in DOMAIN body => body.surveyType \in SurveyType
  /\ "leadSurveyor" \in DOMAIN body => body.leadSurveyor # ""
  /\ "status" \in DOMAIN body => body.status \in SurveyStatus
  /\ "followUpRequired" \in DOMAIN body => body.followUpRequired \in BOOLEAN

updateReportSchemaValid(body) ==
  /\ "surveyType" \in DOMAIN body => body.surveyType \in SurveyType
  /\ "leadSurveyor" \in DOMAIN body => body.leadSurveyor # ""
  /\ "complianceScore" \in DOMAIN body =>
        body.complianceScore >= 0 /\ body.complianceScore <= 100
  /\ "status" \in DOMAIN body => body.status \in SurveyStatus
  /\ "followUpRequired" \in DOMAIN body => body.followUpRequired \in BOOLEAN

updateReportSchemaParse(body) ==
  [k \in (DOMAIN body) \cap updateReportSchemaKeys |-> body[k]]

createReportSchemaValid(body) ==
  /\ {"facilityId", "surveyType", "surveyDate", "leadSurveyor", "surveyScope",
      "accreditationBody"} \subseteq DOMAIN body
  /\ body.facilityId # ""
  /\ body.surveyType \in SurveyType
  /\ body.leadSurveyor # ""
  /\ Len(body.surveyScope) >= 1
  /\ body.accreditationBody \in AccreditationBody

\* Faulty variant: followUpRequired defaults to true.
createReportSchemaParse_FollowUpDefaultsTrue(body) ==
  [k \in (DOMAIN body) \cap
          {"facilityId", "surveyType", "surveyDate", "leadSurveyor", "surveyScope",
           "accreditationBody", "correctiveActionDue", "followUpRequired"} |-> body[k]]
    @@ [followUpRequired |-> TRUE]

createReportSchemaParse(body) ==
  [k \in (DOMAIN body) \cap
          {"facilityId", "surveyType", "surveyDate", "leadSurveyor", "surveyScope",
           "accreditationBody", "correctiveActionDue", "followUpRequired"} |-> body[k]]
    @@ [followUpRequired |-> FALSE]

(***************************************************************************)
(* Errors, responses and the error-handling middleware.                    *)
(***************************************************************************)
Nothing == [nothing |-> TRUE]

NotFoundError(id) == [statusCode |-> 404, code |-> "NOT_FOUND", details |-> Nothing]

ConflictError(details) == [statusCode |-> 409, code |-> "CONFLICT", details |-> details]

BadRequestError == [statusCode |-> 400, code |-> "BAD_REQUEST", details |-> Nothing]

ZodError == [statusCode |-> 400, code |-> "VALIDATION_ERROR", details |-> [fields |-> TRUE]]

\* The failure envelope {success: false, error: {code, message, details}}.
errorHandler(error) ==
  [status |-> error.statusCode, success |-> FALSE, envelope |-> TRUE,
   code |-> error.code, error |-> "", details |-> error.details, data |-> Nothing]

\* A denial written by a middleware itself: {error: <text>, success: false, details?}.
MiddlewareDenial(status, text, details) ==
  [status |-> status, success |-> FALSE, envelope |-> FALSE,
   code |-> "", error |-> text, details |-> details, data |-> Nothing]

Success(status, data) ==
  [status |-> status, success |-> TRUE, envelope |-> TRUE,
   code |-> "", error |-> "", details |-> Nothing, data |-> data]

Threw(error, store) == [threw |-> TRUE, error |-> error, value |-> Nothing, store |-> store]

Returned(value, store) == [threw |-> FALSE, error |-> Nothing, value |-> value, store |-> store]

(***************************************************************************)
(* Report service.                                                         *)
(***************************************************************************)
uuid(store) == "new-" \o ToString(Len(store) - Len(initialReports) + 1)

\* Faulty variant: the year of the survey is not looked at.
isDuplicate_IgnoresYear(report, reportData) ==
  report.surveyType = reportData.surveyType

isDuplicate(report, reportData) ==
  /\ report.surveyType = reportData.surveyType
  /\ getFullYear(report.surveyDate) = getFullYear(newDate(reportData.surveyDate))

createNewReport(store, reportData, clock) ==
  LET existingReports == findReportsByFacility(store, reportData.facilityId)
      duplicates == SelectSeq(existingReports, LAMBDA report : isDuplicate(report, reportData))
      newReport ==
        [id |-> uuid(store),
         facilityId |-> reportData.facilityId,
         surveyType |-> reportData.surveyType,
         surveyDate |-> newDate(reportData.surveyDate),
         leadSurveyor |-> reportData.leadSurveyor,
         surveyScope |-> reportData.surveyScope,
         complianceScore |-> 0,
         status |-> "compliant",
         accreditationBody |-> reportData.accreditationBody,
         deficiencies |-> << >>,
         correctiveActionDue |->
           IF "correctiveActionDue" \in DOMAIN reportData
           THEN newDate(reportData.correctiveActionDue)
           ELSE clock + DefaultCorrectiveActionDays,
         followUpRequired |-> reportData.followUpRequired,
         surveyorNotes |-> << >>,
         createdAt |-> clock,
         updatedAt |-> clock,
         version |-> 1]
  IN  IF Len(duplicates) > 0
      THEN Threw(ConflictError([facilityId |-> reportData.facilityId,
                                surveyType |-> reportData.surveyType,
                                existingReportId |-> duplicates[1].id]), store)
      ELSE Returned(newReport, createReport(store, newReport))

\* Faulty variant: a payload without followUpRequired resets it.
updatePayload_ResetsFollowUp(updateData, clock) ==
  (IF "correctiveActionDue" \in DOMAIN updateData
   THEN [correctiveActionDue |-> newDate(updateData.correctiveActionDue)]
   ELSE [k \in {} |-> TRUE])
    @@ updateData @@ [updatedAt |-> clock, followUpRequired |-> FALSE]

updatePayload(updateData, clock) ==
  (IF "correctiveActionDue" \in DOMAIN updateData
   THEN [correctiveActionDue |-> newDate(updateData.correctiveActionDue)]
   ELSE [k \in {} |-> TRUE])
    @@ updateData @@ [updatedAt |-> clock]

\* Faulty variant: only a version ahead of the stored one is refused.
updateReportById_AcceptsOlderVersion(store, id, updateData, version, clock) ==
  IF ~Exists(store, id)
  THEN Threw(NotFoundError(id), store)
  ELSE LET existingReport == findReportById(store, id)
       IN  IF existingReport.version < version
           THEN Threw(ConflictError([expectedVersion |-> version,
                                     currentVersion |-> existingReport.version,
                                     reportId |-> id]), store)
           ELSE LET updated == updateReport(store, id, updatePayload(updateData, clock), clock)
                IN  Returned(findReportById(updated, id), updated)

\* Faulty variant: the request is expected to carry the version it will produce.
updateReportById_ExpectsNextVersion(store, id, updateData, version, clock) ==
  IF ~Exists(store, id)
  THEN Threw(NotFoundError(id), store)
  ELSE LET existingReport == findReportById(store, id)
       IN  IF existingReport.version + 1 # version
           THEN Threw(ConflictError([expectedVersion |-> version,
                                     currentVersion |-> existingReport.version,
                                     reportId |-> id]), store)
           ELSE LET updated == updateReport(store, id, updatePayload(updateData, clock), clock)
                IN  Returned(findReportById(updated, id), updated)

\* Faulty variant: no version check, the last writer wins.
updateReportById_LastWriterWins(store, id, updateData, version, clock) ==
  IF ~Exists(store, id)
  THEN Threw(NotFoundError(id), store)
  ELSE LET updated == updateReport(store, id, updatePayload(updateData, clock), clock)
       IN  Returned(findReportById(updated, id), updated)

\* Faulty variant: the conflict reports the two versions the wrong way round.
updateReportById_SwappedDetails(store, id, updateData, version, clock) ==
  IF ~Exists(store, id)
  THEN Threw(NotFoundError(id), store)
  ELSE LET existingReport == findReportById(store, id)
       IN  IF existingReport.version # version
           THEN Threw(ConflictError([expectedVersion |-> existingReport.version,
                                     currentVersion |-> version,
                                     reportId |-> id]), store)
           ELSE LET updated == updateReport(store, id, updatePayload(updateData, clock), clock)
                IN  Returned(findReportById(updated, id), updated)

\* Faulty variant: a stale update is rejected after the report was touched.
updateReportById_TouchesOnConflict(store, id, updateData, version, clock) ==
  IF ~Exists(store, id)
  THEN Threw(NotFoundError(id), store)
  ELSE LET existingReport == findReportById(store, id)
       IN  IF existingReport.version # version
           THEN Threw(ConflictError([expectedVersion |-> version,
                                     currentVersion |-> existingReport.version,
                                     reportId |-> id]),
                      [store EXCEPT ![findIndex(store, id)].updatedAt = clock])
           ELSE LET updated == updateReport(store, id, updatePayload(updateData, clock), clock)
                IN  Returned(findReportById(updated, id), updated)

updateReportById(store, id, updateData, version, clock) ==
  IF ~Exists(store, id)
  THEN Threw(NotFoundError(id), store)
  ELSE LET existingReport == findReportById(store, id)
       IN  IF existingReport.version # version
           THEN Threw(ConflictError([expectedVersion |-> version,
                                     currentVersion |-> existingReport.version,
                                     reportId |-> id]), store)
           ELSE LET updated == updateReport(store, id, updatePayload(updateData, clock), clock)
                IN  Returned(findReportById(updated, id), updated)

(***************************************************************************)
(* Middleware of the report routes.  A middleware either answers the       *)
(* request itself (next = FALSE, res is the answer) or calls next().       *)
(***************************************************************************)
Next_(res) == [next |-> TRUE, res |-> res]

Answer(res) == [next |-> FALSE, res |-> res]

authenticate(actor) ==
  IF actor \in UserRole
  THEN Next_(Nothing)
  ELSE Answer(MiddlewareDenial(401, "Unauthorized", Nothing))

authorizeRoute(roles, actor) ==
  IF ~authorize(roles, actor)
  THEN Answer(MiddlewareDenial(403, "Forbidden", Nothing))
  ELSE Next_(Nothing)

authorizeReportEdit(store, actor, reportId) ==
  IF ~Exists(store, reportId)
  THEN Answer(MiddlewareDenial(404, "Report not found", Nothing))
  ELSE LET existingReport == findReportById(store, reportId)
       IN  IF ~checkStatusEditPermission(actor, existingReport.status)
           THEN Answer(MiddlewareDenial(403, "Insufficient permissions",
                         [userRole |-> actor,
                          reportStatus |-> existingReport.status,
                          requiredRole |-> getRequiredRoleForStatus(existingReport.status)]))
           ELSE Next_(Nothing)

(***************************************************************************)
(* Controllers.  Each yields the response and the store it leaves.         *)
(***************************************************************************)
Out(res, store) == [res |-> res, store |-> store]

requestVersion(body, ifMatch) ==
  IF "version" \in DOMAIN body /\ body.version # 0
  THEN body.version
  ELSE IF ifMatch.kind = "number" /\ ifMatch.n # 0 THEN ifMatch.n ELSE 1

updateReportController(store, id, body, ifMatch, clock) ==
  IF ~uuidSchema(id) \/ ~updateReportSchemaValid(body)
  THEN Out(errorHandler(ZodError), store)
  ELSE LET r == updateReportById(store, id, updateReportSchemaParse(body),
                                 requestVersion(body, ifMatch), clock)
       IN  IF r.threw
           THEN Out(errorHandler(r.error), r.store)
           ELSE Out(Success(200, r.value), r.store)

createReportController(store, body, clock) ==
  IF ~createReportSchemaValid(body)
  THEN Out(errorHandler(ZodError), store)
  ELSE LET r == createNewReport(store, createReportSchemaParse(body), clock)
       IN  IF r.threw
           THEN Out(errorHandler(r.error), r.store)
           ELSE Out(Success(201, r.value), r.store)

(***************************************************************************)
(* Routes: the middleware chain in front of each controller.               *)
(***************************************************************************)
\* Faulty variant: the route lacks the status-based authorization.
putReportRoute_Unguarded(store, actor, id, body, ifMatch, clock) ==
  IF ~authenticate(actor).next
  THEN Out(authenticate(actor).res, store)
  ELSE updateReportController(store, id, body, ifMatch, clock)

\* Faulty variant: the status the payload asks for is checked against the role as well.
putReportRoute_ChecksTargetStatus(store, actor, id, body, ifMatch, clock) ==
  IF ~authenticate(actor).next
  THEN Out(authenticate(actor).res, store)
  ELSE IF ~authorizeReportEdit(store, actor, id).next
  THEN Out(authorizeReportEdit(store, actor, id).res, store)
  ELSE IF "status" \in DOMAIN body /\ ~checkStatusEditPermission(actor, body.status)
  THEN Out(MiddlewareDenial(403, "Insufficient permissions",
                            [userRole |-> actor, reportStatus |-> body.status,
                             requiredRole |-> getRequiredRoleForStatus(body.status)]), store)
  ELSE updateReportController(store, id, body, ifMatch, clock)

putReportRoute(store, actor, id, body, ifMatch, clock) ==
  IF ~authenticate(actor).next
  THEN Out(authenticate(actor).res, store)
  ELSE IF ~authorizeReportEdit(store, actor, id).next
  THEN Out(authorizeReportEdit(store, actor, id).res, store)
  ELSE updateReportController(store, id, body, ifMatch, clock)

postReportRoute(store, actor, body, clock) ==
  IF ~authenticate(actor).next
  THEN Out(authenticate(actor).res, store)
  ELSE IF ~authorizeRoute(CreateUploadRoles, actor).next
  THEN Out(authorizeRoute(CreateUploadRoles, actor).res, store)
  ELSE createReportController(store, body, clock)

\* uploadSingle (multer) followed by handleUploadError; the file is described by
\* what the upload validator looks at.
uploadSingle(file) ==
  IF ~file.present THEN Next_(Nothing)
  ELSE IF ~file.allowedType THEN Answer(errorHandler(BadRequestError))
  ELSE IF file.tooLarge
  THEN Answer([status |-> 413, success |-> FALSE, envelope |-> TRUE,
               code |-> "FILE_TOO_LARGE", error |-> "", details |-> Nothing, data |-> Nothing])
  ELSE Next_(Nothing)

uploadAttachment(store, id, file) ==
  IF ~uuidSchema(id) THEN Out(errorHandler(ZodError), store)
  ELSE IF ~file.present THEN Out(errorHandler(BadRequestError), store)
  ELSE IF ~Exists(store, id) THEN Out(errorHandler(NotFoundError(id)), store)
  ELSE Out(Success(201, [reportId |-> id]), store)

postAttachmentRoute(store, actor, id, file) ==
  IF ~authenticate(actor).next
  THEN Out(authenticate(actor).res, store)
  ELSE IF ~authorizeRoute(CreateUploadRoles, actor).next
  THEN Out(authorizeRoute(CreateUploadRoles, actor).res, store)
  ELSE IF ~uploadSingle(file).next
  THEN Out(uploadSingle(file).res, store)
  ELSE uploadAttachment(store, id, file)

(***************************************************************************)
(* Reading one report.  A query is a function from the parameters the URL  *)
(* carries to their values: include is the list of names between the       *)
(* commas, page and limit are the numbers their strings coerce to.         *)
(***************************************************************************)
NoQuery == [k \in {} |-> TRUE]

reportQuerySchemaValid(query) ==
  /\ "view" \in DOMAIN query => query["view"] \in {"default", "summary"}
  /\ "page" \in DOMAIN query => query["page"] >= 1
  /\ "limit" \in DOMAIN query => query["limit"] >= 1 /\ query["limit"] <= 100

reportQuerySchemaParse(query) ==
  [k \in (DOMAIN query) \cap {"view", "include", "page", "limit"} |-> query[k]]
    @@ [view |-> "default", page |-> 1, limit |-> 20]

\* The options the controller hands to the service: the parsed query and the
\* three deficiencies.* parameters as the URL carries them.
extendedOptions(query) ==
  [k \in (DOMAIN query) \cap
          {"deficiencies.severity", "deficiencies.sortBy", "deficiencies.order"} |-> query[k]]
    @@ reportQuerySchemaParse(query)

severityOrder == [immediate_jeopardy |-> 3, major |-> 2, minor |-> 1]

\* The standard codes of the stored deficiencies in the order of localeCompare.
standardCodes ==
  <<"IC.01.01", "IC.01.03", "IC.02.01", "MM.01.01", "MM.01.02", "MM.02.01", "MM.03.01",
    "PS.01.01", "PS.01.02", "PS.02.01", "PS.03.01">>

localeCompare(a, b) ==
  LET at(c) == CHOOSE i \in 1..Len(standardCodes) : standardCodes[i] = c
  IN  IF at(a) < at(b) THEN -1 ELSE IF at(a) > at(b) THEN 1 ELSE 0

\* The comparator formatDeficiencies hands to Array.prototype.sort.
compareDeficiencies(a, b, sortBy, sortOrder) ==
  LET comparison ==
        CASE sortBy = "dueDate" -> a.dueDate - b.dueDate
          [] sortBy = "severity" -> severityOrder[b.severity] - severityOrder[a.severity]
          [] sortBy = "standardCode" -> localeCompare(a.standardCode, b.standardCode)
          [] OTHER -> 0
  IN  IF sortOrder = "asc" THEN comparison ELSE 0 - comparison

\* Array.prototype.sort: stable, by the comparator.
RECURSIVE sort(_, _, _)
sort(seq, sortBy, sortOrder) ==
  IF seq = << >> THEN << >>
  ELSE LET front == sort(SubSeq(seq, 1, Len(seq) - 1), sortBy, sortOrder)
           x == seq[Len(seq)]
           k == Cardinality({i \in 1..Len(front) :
                               compareDeficiencies(front[i], x, sortBy, sortOrder) <= 0})
       IN  SubSeq(front, 1, k) \o <<x>> \o SubSeq(front, k + 1, Len(front))

slice(seq, startIndex, endIndex) ==
  SubSeq(seq, startIndex + 1, IF endIndex < Len(seq) THEN endIndex ELSE Len(seq))

ceilDiv(n, d) == (n + d - 1) \div d

\* Faulty variant: totalItems counts the stored list, not the filtered one.
formatDeficiencies_CountsStored(deficiencies, options) ==
  LET filtered ==
        IF "deficiencies.severity" \in DOMAIN options
        THEN SelectSeq(deficiencies, LAMBDA d : d.severity = options["deficiencies.severity"])
        ELSE deficiencies
      sortBy == IF "deficiencies.sortBy" \in DOMAIN options
                THEN options["deficiencies.sortBy"] ELSE "severity"
      sortOrder == IF "deficiencies.order" \in DOMAIN options
                   THEN options["deficiencies.order"] ELSE "desc"
      sorted == sort(filtered, sortBy, sortOrder)
      page == IF "page" \in DOMAIN options THEN options["page"] ELSE 1
      limit == IF "limit" \in DOMAIN options THEN options["limit"] ELSE 20
      startIndex == (page - 1) * limit
      endIndex == startIndex + limit
      paginatedDeficiencies == slice(sorted, startIndex, endIndex)
  IN  IF "page" \in DOMAIN options \/ "limit" \in DOMAIN options
      THEN [paginated |-> TRUE,
            items |-> paginatedDeficiencies,
            pagination |-> [currentPage |-> page,
                            totalPages |-> ceilDiv(Len(filtered), limit),
                            totalItems |-> Len(deficiencies),
                            itemsPerPage |-> limit,
                            hasNext |-> endIndex < Len(filtered),
                            hasPrev |-> page > 1]]
      ELSE [paginated |-> FALSE, items |-> paginatedDeficiencies]

\* Faulty variant: hasNext is true on a page that ends with the last item.
formatDeficiencies_OffByOne(deficiencies, options) ==
  LET filtered ==
        IF "deficiencies.severity" \in DOMAIN options
        THEN SelectSeq(deficiencies, LAMBDA d : d.severity = options["deficiencies.severity"])
        ELSE deficiencies
      sortBy == IF "deficiencies.sortBy" \in DOMAIN options
                THEN options["deficiencies.sortBy"] ELSE "severity"
      sortOrder == IF "deficiencies.order" \in DOMAIN options
                   THEN options["deficiencies.order"] ELSE "desc"
      sorted == sort(filtered, sortBy, sortOrder)
      page == IF "page" \in DOMAIN options THEN options["page"] ELSE 1
      limit == IF "limit" \in DOMAIN options THEN options["limit"] ELSE 20
      startIndex == (page - 1) * limit
      endIndex == startIndex + limit
      paginatedDeficiencies == slice(sorted, startIndex, endIndex)
  IN  IF "page" \in DOMAIN options \/ "limit" \in DOMAIN options
      THEN [paginated |-> TRUE,
            items |-> paginatedDeficiencies,
            pagination |-> [currentPage |-> page,
                            totalPages |-> ceilDiv(Len(filtered), limit),
                            totalItems |-> Len(filtered),
                            itemsPerPage |-> limit,
                            hasNext |-> endIndex <= Len(filtered),
                            hasPrev |-> page > 1]]
      ELSE [paginated |-> FALSE, items |-> paginatedDeficiencies]

\* The value of deficiencies in an include response: the array itself
\* (paginated |-> FALSE) or the object {items, pagination}.
formatDeficiencies(deficiencies, options) ==
  LET filtered ==
        IF "deficiencies.severity" \in DOMAIN options
        THEN SelectSeq(deficiencies, LAMBDA d : d.severity = options["deficiencies.severity"])
        ELSE deficiencies
      sortBy == IF "deficiencies.sortBy" \in DOMAIN options
                THEN options["deficiencies.sortBy"] ELSE "severity"
      sortOrder == IF "deficiencies.order" \in DOMAIN options
                   THEN options["deficiencies.order"] ELSE "desc"
      sorted == sort(filtered, sortBy, sortOrder)
      page == IF "page" \in DOMAIN options THEN options["page"] ELSE 1
      limit == IF "limit" \in DOMAIN options THEN options["limit"] ELSE 20
      startIndex == (page - 1) * limit
      endIndex == startIndex + limit
      paginatedDeficiencies == slice(sorted, startIndex, endIndex)
  IN  IF "page" \in DOMAIN options \/ "limit" \in DOMAIN options
      THEN [paginated |-> TRUE,
            items |-> paginatedDeficiencies,
            pagination |-> [currentPage |-> page,
                            totalPages |-> ceilDiv(Len(filtered), limit),
                            totalItems |-> Len(filtered),
                            itemsPerPage |-> limit,
                            hasNext |-> endIndex < Len(filtered),
                            hasPrev |-> page > 1]]
      ELSE [paginated |-> FALSE, items |-> paginatedDeficiencies]

fieldMap ==
  [deficiencies |-> "deficiencies", notes |-> "surveyorNotes",
   surveyorNotes |-> "surveyorNotes", complianceScore |-> "complianceScore",
   status |-> "status", surveyType |-> "surveyType", facilityId |-> "facilityId",
   leadSurveyor |-> "leadSurveyor", surveyDate |-> "surveyDate",
   accreditationBody |-> "accreditationBody"]

RECURSIVE formatWithInclude(_, _, _)
formatWithInclude(report, fields, options) ==
  IF fields = << >> THEN [id |-> report.id]
  ELSE LET result == formatWithInclude(report, SubSeq(fields, 1, Len(fields) - 1), options)
           field == fields[Len(fields)]
       IN  IF field = "basic"
           THEN [facilityId |-> report.facilityId, surveyType |-> report.surveyType,
                 complianceScore |-> report.complianceScore, status |-> report.status,
                 surveyDate |-> report.surveyDate] @@ result
           ELSE IF field \in DOMAIN fieldMap
           THEN IF field = "deficiencies"
                THEN [deficiencies |-> formatDeficiencies(report.deficiencies, options)] @@ result
                ELSE (field :> report[fieldMap[field]]) @@ result
           ELSE result

\* Faulty variant: more than two major deficiencies make the risk medium even
\* when an immediate-jeopardy deficiency exists.
formatSummaryView_MajorFirst(report, clock) ==
  LET count(severity) ==
        Len(SelectSeq(report.deficiencies, LAMBDA d : d.severity = severity))
  IN  [id |-> report.id,
       riskLevel |-> IF count("major") > 2 THEN "medium"
                     ELSE IF count("immediate_jeopardy") > 0 THEN "high" ELSE "low",
       keyMetrics |-> [totalDeficiencies |-> Len(report.deficiencies),
                       immediateJeopardyCount |-> count("immediate_jeopardy"),
                       majorDeficiencies |-> count("major")]]

formatSummaryView(report, clock) ==
  LET count(severity) ==
        Len(SelectSeq(report.deficiencies, LAMBDA d : d.severity = severity))
      immediateJeopardyCount == count("immediate_jeopardy")
      majorDeficiencies == count("major")
      critical == SelectSeq(report.deficiencies,
                            LAMBDA d : d.severity \in {"immediate_jeopardy", "major"})
  IN  [id |-> report.id,
       facilityId |-> report.facilityId,
       surveyType |-> report.surveyType,
       surveyDate |-> report.surveyDate,
       status |-> report.status,
       complianceScore |-> report.complianceScore,
       riskLevel |-> IF immediateJeopardyCount > 0 THEN "high"
                     ELSE IF majorDeficiencies > 2 THEN "medium" ELSE "low",
       keyMetrics |->
         [totalDeficiencies |-> Len(report.deficiencies),
          immediateJeopardyCount |-> immediateJeopardyCount,
          majorDeficiencies |-> majorDeficiencies,
          minorDeficiencies |->
            Len(report.deficiencies) - immediateJeopardyCount - majorDeficiencies,
          overdueTasks |-> Len(SelectSeq(report.deficiencies, LAMBDA d : d.dueDate < clock)),
          complianceRate |-> report.complianceScore],
       criticalIssues |-> [i \in 1..(IF Len(critical) < 3 THEN Len(critical) ELSE 3) |->
                             critical[i].description],
       actionRequired |->
         [correctiveActionDue |-> report.correctiveActionDue,
          followUpRequired |-> report.followUpRequired,
          estimatedResolutionDays |->
            IF report.followUpRequired
            THEN [days |-> report.correctiveActionDue - clock]
            ELSE Nothing],
       executiveSummary |->
         IF immediateJeopardyCount > 0
         THEN [urgent |-> TRUE, immediateJeopardy |-> immediateJeopardyCount,
               total |-> Len(report.deficiencies), score |-> report.complianceScore]
         ELSE [urgent |-> FALSE, total |-> Len(report.deficiencies),
               major |-> majorDeficiencies, score |-> report.complianceScore,
               followUpRequired |-> report.followUpRequired]]

\* Faulty variant: a non-empty include wins over view=summary.
formatReportResponse_IncludeFirst(report, options, clock) ==
  IF "include" \in DOMAIN options /\ options["include"] # << >>
  THEN formatWithInclude(report, options["include"], options)
  ELSE IF options["view"] = "summary" THEN formatSummaryView(report, clock)
  ELSE report

formatReportResponse(report, options, clock) ==
  IF options["view"] = "summary" THEN formatSummaryView(report, clock)
  ELSE IF "include" \in DOMAIN options /\ options["include"] # << >>
  THEN formatWithInclude(report, options["include"], options)
  ELSE report

\* Faulty variant: the answer carries new field values under the first version number.
getReportById_OldVersionNumber(store, id, options, clock) ==
  IF ~Exists(store, id)
  THEN Threw(NotFoundError(id), store)
  ELSE Returned(formatReportResponse([findReportById(store, id) EXCEPT !.version = 1],
                                     options, clock), store)

\* Faulty variant: the deficiencies are sorted in the stored report itself.
getReportById_SortsInPlace(store, id, options, clock) ==
  IF ~Exists(store, id)
  THEN Threw(NotFoundError(id), store)
  ELSE Returned(formatReportResponse(findReportById(store, id), options, clock),
                [store EXCEPT ![findIndex(store, id)].deficiencies =
                   sort(@, IF "deficiencies.sortBy" \in DOMAIN options
                           THEN options["deficiencies.sortBy"] ELSE "severity",
                        IF "deficiencies.order" \in DOMAIN options
                        THEN options["deficiencies.order"] ELSE "desc")])

getReportById(store, id, options, clock) ==
  IF ~Exists(store, id)
  THEN Threw(NotFoundError(id), store)
  ELSE Returned(formatReportResponse(findReportById(store, id), options, clock), store)

getReportRoute(store, actor, id, query, clock) ==
  IF ~authenticate(actor).next
  THEN Out(authenticate(actor).res, store)
  ELSE IF ~uuidSchema(id) \/ ~reportQuerySchemaValid(query)
  THEN Out(errorHandler(ZodError), store)
  ELSE LET r == getReportById(store, id, extendedOptions(query), clock)
       IN  IF r.threw
           THEN Out(errorHandler(r.error), r.store)
           ELSE Out(Success(200, r.value), r.store)

getReportsRoute(store, actor) ==
  IF ~authenticate(actor).next
  THEN Out(authenticate(actor).res, store)
  ELSE Out(Success(200, [reports |-> store]), store)

(***************************************************************************)
(* Requests the clients send.  A client that updates a report has read it  *)
(* before: the version it carries is the stored one, the one before it     *)
(* (somebody else updated in between), the one after it, or none at all.   *)
(***************************************************************************)
MissingId == "550e8400-e29b-41d4-a716-446655449999"

MalformedId == "invalid-uuid"

StoredIds(store) == {store[i].id : i \in 1..Len(store)}

CreatedIds(store) == StoredIds(store) \ SampleIds

TargetIds(store) ==
  {"550e8400-e29b-41d4-a716-446655440100",
   "550e8400-e29b-41d4-a716-446655440101",
   "550e8400-e29b-41d4-a716-446655440103"} \cup CreatedIds(store)

EmptyBody == [k \in {} |-> TRUE]

ScoreFields == [complianceScore |-> 75, followUpRequired |-> TRUE]

StatusFields == [status |-> "immediate_jeopardy"]

TypeFields == [surveyType |-> "infection_control", correctiveActionDue |-> [iso |-> 700]]

InvalidFields == [complianceScore |-> 150]

AtVersion(fields, v) == [version |-> v] @@ fields

NoHeader == [kind |-> "absent", n |-> 0]

IfMatchHeaders == { NoHeader, [kind |-> "number", n |-> 2], [kind |-> "etag", n |-> 2] }

PutRequest(actor, id, body, ifMatch) ==
  [actor |-> actor, id |-> id, body |-> body, ifMatch |-> ifMatch]

PutRequests(store) ==
  LET ver(id) == findReportById(store, id).version
  IN  {PutRequest("anonymous", "550e8400-e29b-41d4-a716-446655440101",
                  AtVersion(ScoreFields, 1), NoHeader)}
      \cup {PutRequest(a, id, AtVersion(ScoreFields, 1), NoHeader) :
               a \in {"reader", "admin"}, id \in {MissingId, MalformedId}}
      \cup {PutRequest(a, id, AtVersion(f, ver(id)), NoHeader) :
               a \in UserRole, id \in TargetIds(store), f \in {ScoreFields, StatusFields}}
      \cup {PutRequest(a, id, AtVersion(ScoreFields, ver(id) - 1), NoHeader) :
               a \in UserRole, id \in TargetIds(store)}
      \cup {PutRequest("admin", id, AtVersion(ScoreFields, ver(id) - 2), NoHeader) :
               id \in TargetIds(store)}
      \cup {PutRequest("editor", id, AtVersion(StatusFields, ver(id) - 1), NoHeader) :
               id \in TargetIds(store)}
      \cup {PutRequest("reader", id, AtVersion(InvalidFields, ver(id)), NoHeader) :
               id \in TargetIds(store)}
      \cup {PutRequest("admin", id, AtVersion(f, ver(id)), NoHeader) :
               id \in TargetIds(store), f \in {TypeFields, InvalidFields}}
      \cup {PutRequest("admin", id, EmptyBody, h) :
               id \in TargetIds(store), h \in IfMatchHeaders}

BaseCreateBody ==
  [facilityId |-> "mercy-general-hospital",
   surveyType |-> "infection_control",
   surveyDate |-> [iso |-> 335],
   leadSurveyor |-> "Dr. Automated Test",
   surveyScope |-> <<"ICU", "Emergency Department">>,
   accreditationBody |-> "Joint Commission"]

CreateBodies ==
  { [correctiveActionDue |-> [iso |-> 365], followUpRequired |-> FALSE] @@ BaseCreateBody,
    [surveyDate |-> [iso |-> 531]] @@ BaseCreateBody,
    [surveyType |-> "comprehensive", correctiveActionDue |-> [iso |-> 365],
     followUpRequired |-> TRUE] @@ BaseCreateBody,
    [facilityId |-> "test-hospital-automated"] @@ BaseCreateBody,
    [surveyScope |-> << >>] @@ BaseCreateBody }

PostRequests ==
  {[actor |-> "editor", body |-> b] : b \in CreateBodies}
    \cup {[actor |-> a, body |-> b] :
            a \in {"reader"}, b \in {BaseCreateBody, [surveyScope |-> << >>] @@ BaseCreateBody}}
    \cup {[actor |-> a, body |-> [surveyDate |-> [iso |-> 531]] @@ BaseCreateBody] :
            a \in {"admin", "anonymous"}}

NoFile == [present |-> FALSE, allowedType |-> TRUE, tooLarge |-> FALSE]

TextFile == [present |-> TRUE, allowedType |-> TRUE, tooLarge |-> FALSE]

Files ==
  { NoFile, TextFile,
    [present |-> TRUE, allowedType |-> FALSE, tooLarge |-> FALSE],
    [present |-> TRUE, allowedType |-> TRUE, tooLarge |-> TRUE] }

UploadRequests(store) ==
  {[actor |-> "editor", id |-> "550e8400-e29b-41d4-a716-446655440103", file |-> f] : f \in Files}
    \cup {[actor |-> "reader", id |-> id, file |-> f] :
            id \in {"550e8400-e29b-41d4-a716-446655440103", MalformedId},
            f \in {TextFile, NoFile}}
    \cup {[actor |-> a, id |-> MissingId, file |-> TextFile] : a \in {"admin", "anonymous"}}

GetRequests(store) ==
  {[actor |-> "reader", id |-> id, query |-> NoQuery] :
      id \in TargetIds(store) \cup {MissingId, MalformedId}}
    \cup {[actor |-> "anonymous", id |-> "550e8400-e29b-41d4-a716-446655440103",
            query |-> NoQuery]}

\* Queries on one report: filters, orders and pages of its deficiencies, the
\* other views, and a page number the schema rejects.
Paging ==
  { NoQuery, [page |-> 1, limit |-> 2], [page |-> 2, limit |-> 2], [page |-> 3, limit |-> 1],
    [page |-> 2, limit |-> 1], [page |-> 3, limit |-> 2],
    [page |-> 1], [limit |-> 3] }

QueriedIds ==
  {"550e8400-e29b-41d4-a716-446655440100", "550e8400-e29b-41d4-a716-446655440102",
   "550e8400-e29b-41d4-a716-446655440103", "550e8400-e29b-41d4-a716-446655440104"}

Queries ==
  {[include |-> <<"deficiencies">>] @@ p : p \in Paging}
    \cup {("deficiencies.severity" :> sev) @@ [include |-> <<"deficiencies">>] @@ p :
             sev \in {"immediate_jeopardy", "major", "minor"}, p \in Paging}
    \cup {("deficiencies.sortBy" :> by) @@ [include |-> <<"deficiencies">>] :
             by \in {"severity", "dueDate", "standardCode"}}
    \cup {("deficiencies.sortBy" :> by) @@ ("deficiencies.order" :> o)
             @@ [include |-> <<"deficiencies">>] :
             by \in {"severity", "dueDate", "standardCode"}, o \in {"asc", "desc"}}
    \cup {("deficiencies.order" :> o) @@ [include |-> <<"deficiencies">>] : o \in {"asc", "desc"}}
    \cup { NoQuery, [view |-> "summary"], [view |-> "default"], [view |-> "full"],
           [include |-> <<"basic">>], [include |-> <<"notes", "status">>],
           [include |-> <<"basic", "deficiencies", "version">>],
           [view |-> "summary", include |-> <<"deficiencies">>],
           [view |-> "summary", include |-> <<"basic">>, page |-> 2, limit |-> 1],
           ("deficiencies.severity" :> "major") @@ ("deficiencies.sortBy" :> "dueDate")
             @@ ("deficiencies.order" :> "asc") @@ [page |-> 2, limit |-> 1],
           ("deficiencies.severity" :> "minor") @@ [view |-> "default", include |-> << >>],
           [include |-> <<"deficiencies">>, page |-> 0, limit |-> 2],
           [include |-> <<"deficiencies">>, page |-> 1, limit |-> 101] }

QueryRequests ==
  {[actor |-> "reader", id |-> id, query |-> q] : id \in QueriedIds, q \in Queries}

(***************************************************************************)
(* The state machine.  now is the clock the handlers read; it moves on     *)
(* with every write, so that two writes never carry the same timestamp.    *)
(* last is the request handled last: what was asked, the target report as  *)
(* the handler found it (before) and the response.  updateCount counts,    *)
(* per report, the updates that succeeded.                                 *)
(***************************************************************************)
NoRequest == [op |-> "none", req |-> Nothing, before |-> Nothing, res |-> Nothing]

Found(store, id) == IF Exists(store, id) THEN findReportById(store, id) ELSE Nothing

Init ==
  /\ sampleReports = initialReports
  /\ now = ProcessStart
  /\ notifications = << >>
  /\ updateCount = [id \in SampleIds |-> 0]
  /\ last = NoRequest

PutReport(req) ==
  /\ \E out \in {putReportRoute(sampleReports, req.actor, req.id, req.body, req.ifMatch, now)} :
         /\ out.res.success => now - ProcessStart < MaxWrites
         /\ now' = IF out.res.success THEN now + 1 ELSE now
         /\ sampleReports' = out.store
         /\ last' = [op |-> "PUT", req |-> req, before |-> Found(sampleReports, req.id),
                     res |-> out.res]
         /\ updateCount' = IF out.res.success
                            THEN [updateCount EXCEPT ![req.id] = @ + 1]
                            ELSE updateCount
  /\ UNCHANGED notifications

PostReport(req) ==
  /\ \E out \in {postReportRoute(sampleReports, req.actor, req.body, now)} :
         /\ out.res.success => now - ProcessStart < MaxWrites
         /\ now' = IF out.res.success THEN now + 1 ELSE now
         /\ sampleReports' = out.store
         /\ last' = [op |-> "POST", req |-> req, before |-> Nothing, res |-> out.res]
         /\ updateCount' = IF out.res.success
                            THEN (out.res.data.id :> 0) @@ updateCount
                            ELSE updateCount
         /\ notifications' = IF out.res.success
                              THEN Append(notifications,
                                          [reportId |-> out.res.data.id,
                                           createdBy |-> req.actor,
                                           state |-> "pending"])
                              ELSE notifications

PostAttachment(req) ==
  /\ \E out \in {postAttachmentRoute(sampleReports, req.actor, req.id, req.file)} :
         /\ sampleReports' = out.store
         /\ last' = [op |-> "UPLOAD", req |-> req, before |-> Found(sampleReports, req.id),
                     res |-> out.res]
  /\ UNCHANGED <<now, notifications, updateCount>>

GetReport(req) ==
  /\ \E out \in {getReportRoute(sampleReports, req.actor, req.id, req.query, now)} :
         /\ sampleReports' = out.store
         /\ last' = [op |-> "GET", req |-> req, before |-> Found(sampleReports, req.id),
                     res |-> out.res]
  /\ UNCHANGED <<now, notifications, updateCount>>

GetReports(actor) ==
  /\ \E out \in {getReportsRoute(sampleReports, actor)} :
         /\ sampleReports' = out.store
         /\ last' = [op |-> "LIST", req |-> [actor |-> actor], before |-> Nothing,
                     res |-> out.res]
  /\ UNCHANGED <<now, notifications, updateCount>>

\* Faulty variant: a rejected notification takes the created report back out.
NotificationSettles_FailureUndoesCreate(i, shouldFail) ==
  /\ notifications[i].state = "pending"
  /\ notifications' = [notifications EXCEPT ![i].state = IF shouldFail THEN "failed" ELSE "sent"]
  /\ sampleReports' = IF shouldFail
                       THEN SelectSeq(sampleReports,
                                      LAMBDA r : r.id # notifications[i].reportId)
                       ELSE sampleReports
  /\ UNCHANGED <<now, updateCount, last>>

\* Faulty variant: a rejected notification is attempted again.
NotificationSettles_RetriesOnFailure(i, shouldFail) ==
  /\ notifications[i].state = "pending"
  /\ notifications' =
       IF shouldFail
       THEN Append([notifications EXCEPT ![i].state = "failed"],
                   [notifications[i] EXCEPT !.state = "pending"])
       ELSE [notifications EXCEPT ![i].state = "sent"]
  /\ UNCHANGED <<sampleReports, now, updateCount, last>>

\* The timer of triggerAsyncNotification fires: the attempt resolves or rejects.
NotificationSettles(i, shouldFail) ==
  /\ notifications[i].state = "pending"
  /\ notifications' = [notifications EXCEPT ![i].state = IF shouldFail THEN "failed" ELSE "sent"]
  /\ UNCHANGED <<sampleReports, now, updateCount, last>>

NextRequests ==
  \/ \E req \in PutRequests(sampleReports) : PutReport(req)
  \/ \E req \in PostRequests : PostReport(req)
  \/ \E req \in UploadRequests(sampleReports) : PostAttachment(req)
  \/ \E req \in GetRequests(sampleReports) : GetReport(req)
  \/ \E actor \in {"reader", "anonymous"} : GetReports(actor)

Next ==
  \/ NextRequests
  \/ \E i \in 1..Len(notifications), shouldFail \in BOOLEAN : NotificationSettles(i, shouldFail)

\* Every behaviour of the server.
Spec == Init /\ [][Next]_vars

\* The timer of attempt i fires.
TimerFires(i) ==
  /\ i \in 1..Len(notifications)
  /\ \E shouldFail \in BOOLEAN : NotificationSettles(i, shouldFail)

\* Every behaviour of the server in which a timer that was set fires: the
\* process stays up and setTimeout runs its callback after the delay.
SpecTimers == Spec /\ \A i \in 1..MaxWrites : WF_vars(TimerFires(i))

\* Reports are read with the queries of QueryRequests.
NextQuery == \E req \in QueryRequests : GetReport(req)

\* The behaviours in which clients only read single reports.
SpecQuery == Init /\ [][NextQuery]_vars

\* Single reports are read with the queries of QueryRequests, and all reports
\* are listed.
NextReads ==
  \/ \E req \in QueryRequests : GetReport(req)
  \/ \E actor \in {"reader", "anonymous"} : GetReports(actor)

\* The behaviours in which clients only read.
SpecReads == Init /\ [][NextReads]_vars

\* The summary of one report, whatever deficiencies the module was loaded with:
\* the store holds the last sample report with a list of up to MaxDeficiencies
\* deficiencies of any severities.
SeverityLists == UNION {[1..n -> DeficiencySeverity] : n \in 0..MaxDeficiencies}

DeficienciesOf(severities) ==
  [i \in 1..Len(severities) |->
     Deficiency("d-" \o standardCodes[i], standardCodes[i], severities[i], 150 + i)]

InitSummary ==
  /\ \E severities \in SeverityLists :
        sampleReports = <<[initialReports[5] EXCEPT !.deficiencies = DeficienciesOf(severities)]>>
  /\ now = ProcessStart
  /\ notifications = << >>
  /\ updateCount = [id \in SampleIds |-> 0]
  /\ last = NoRequest

SummaryRequests ==
  {[actor |-> "reader", id |-> initialReports[5].id, query |-> [view |-> "summary"]]}

NextSummary == \E req \in SummaryRequests : GetReport(req)

SpecSummary == InitSummary /\ [][NextSummary]_vars

\* The behaviours in which no notification timer has fired yet.
SpecRequests == Init /\ [][NextRequests]_vars

(***************************************************************************)
(* Vocabulary of the properties.                                           *)
(***************************************************************************)
\* The version a handled update carried, as the controller resolved it.
Carried(l) == requestVersion(l.req.body, l.req.ifMatch)

\* The edit policy as the specification tabulates it.
RolePermitted(role, status) ==
  \/ status = "immediate_jeopardy" /\ role = "admin"
  \/ status = "deficient" /\ role \in {"editor", "admin"}
  \/ status = "compliant" /\ role \in {"reader", "editor", "admin"}

IsConflict(res, id, expected, current) ==
  /\ res.status = 409
  /\ ~res.success
  /\ res.code = "CONFLICT"
  /\ res.details = [expectedVersion |-> expected, currentVersion |-> current, reportId |-> id]

IsForbidden(res, role, status) ==
  /\ res.status = 403
  /\ ~res.success
  /\ res.details.userRole = role
  /\ res.details.reportStatus = status
  /\ status = "immediate_jeopardy" => res.details.requiredRole = "admin"
  /\ status = "deficient" => res.details.requiredRole = "editor or admin"

\* This step handles a request, described by last'.
Handles(op) == last' # last /\ last'.op = op

(***************************************************************************)
(* C1.  Two updates that carry the same version N for a report stored at   *)
(* version N, each by a role permitted for the report's status and with a  *)
(* valid payload, handled one after the other.                             *)
(***************************************************************************)
\* The second update of such a pair is handled in this step; the first one won.
RacingPair ==
  /\ last.op = "PUT"
  /\ last.res.success
  /\ Handles("PUT")
  /\ last'.req.id = last.req.id
  /\ Carried(last') = Carried(last)
  /\ last'.req.actor \in UserRole
  /\ updateReportSchemaValid(last'.req.body)
  /\ RolePermitted(last'.req.actor, last.before.status)

\* C1 as stated: after one update of the pair succeeded, the other one fails
\* with Conflict reporting expected version N and current version N+1, and the
\* store keeps exactly what the winner wrote.
C1_LoserGetsConflict ==
  [][RacingPair =>
       /\ IsConflict(last'.res, last'.req.id, Carried(last), Carried(last) + 1)
       /\ sampleReports' = sampleReports]_vars

\* C1, amended: after one update of the pair succeeded, the other one fails and
\* the store keeps exactly what the winner wrote (version N+1); the failure is
\* Conflict (expected N, current N+1) when the loser's role is still permitted
\* for the status the winner left, and Forbidden otherwise.
C1_LoserFails ==
  [][RacingPair =>
       /\ last.res.data.version = Carried(last) + 1
       /\ ~last'.res.success
       /\ sampleReports' = sampleReports
       /\ findReportById(sampleReports', last.req.id) = last.res.data
       /\ IF RolePermitted(last'.req.actor, last.res.data.status)
          THEN IsConflict(last'.res, last'.req.id, Carried(last), Carried(last) + 1)
          ELSE IsForbidden(last'.res, last'.req.actor, last.res.data.status)]_vars

\* A loser got Conflict (expected N, current N+1) after a winner moved the report on.
C1_Witness ==
  /\ last.op = "PUT"
  /\ last.before # Nothing
  /\ updateCount[last.req.id] > 0
  /\ RolePermitted(last.req.actor, last.before.status)
  /\ IsConflict(last.res, last.req.id, Carried(last), Carried(last) + 1)
  /\ last.before.version = Carried(last) + 1

(***************************************************************************)
(* C2.  Every step leaves every stored report in place and changes its     *)
(* version only when the step is a successful update of that report, which *)
(* raises it by exactly 1, whatever version the payload carries; reads,    *)
(* failed updates, creates, uploads and notifications leave it alone.      *)
(***************************************************************************)
UpdateSucceeds(id) == Handles("PUT") /\ last'.res.success /\ last'.req.id = id

C2_VersionStep ==
  [][/\ Len(sampleReports') >= Len(sampleReports)
     /\ \A i \in 1..Len(sampleReports) :
          /\ sampleReports'[i].id = sampleReports[i].id
          /\ sampleReports'[i].version =
               sampleReports[i].version + (IF UpdateSucceeds(sampleReports[i].id) THEN 1 ELSE 0)]_vars

\* An update whose payload carried a version succeeded after a create whose
\* notification was sent; the stored version is one above the previous one.
C2_Witness ==
  /\ last.op = "PUT"
  /\ last.res.success
  /\ "version" \in DOMAIN last.req.body
  /\ findReportById(sampleReports, last.req.id).version = last.before.version + 1
  /\ Len(notifications) > 0
  /\ notifications[1].state = "sent"

(***************************************************************************)
(* C3.  The version of a report against the number of successful updates   *)
(* applied to it.                                                          *)
(***************************************************************************)
\* C3 as stated: every stored report, created or present from the start, has
\* version 1 + N after N successful updates.
C3_VersionIsOnePlusUpdates ==
  \A i \in 1..Len(sampleReports) :
    sampleReports[i].version = 1 + updateCount[sampleReports[i].id]

\* The version a report had when it entered the store.
FirstVersion(id) ==
  IF id \in SampleIds THEN findReportById(initialReports, id).version ELSE 1

\* C3, amended: a created report has version 1 + N after N successful updates;
\* a report present from the start has the version it started with plus N.
C3_VersionIsFirstPlusUpdates ==
  \A i \in 1..Len(sampleReports) :
    sampleReports[i].version =
      FirstVersion(sampleReports[i].id) + updateCount[sampleReports[i].id]

\* A created report was updated once and an initial report that started above
\* version 1 is stored.
C3_Witness ==
  /\ \E i \in 1..Len(sampleReports) :
       /\ sampleReports[i].id \notin SampleIds
       /\ updateCount[sampleReports[i].id] = 1
       /\ sampleReports[i].version = 2
  /\ \E i \in 1..Len(sampleReports) :
       /\ sampleReports[i].id \in SampleIds
       /\ sampleReports[i].version = 3 + updateCount[sampleReports[i].id]

(***************************************************************************)
(* C4.  An update of an existing report that carries a version other than  *)
(* the stored one.                                                         *)
(***************************************************************************)
\* The update handled last was authenticated, had a valid payload, went to an
\* existing report and carried a version other than the stored one.
StaleUpdate ==
  /\ last.op = "PUT"
  /\ last.req.actor \in UserRole
  /\ last.before # Nothing
  /\ updateReportSchemaValid(last.req.body)
  /\ Carried(last) # last.before.version

RejectedAsStale ==
  /\ IsConflict(last.res, last.req.id, Carried(last), last.before.version)
  /\ findReportById(sampleReports, last.req.id) = last.before

C5_WriteOnlyIfPermitted ==
  [][Handles("PUT") =>
       LET actor == last'.req.actor
           id == last'.req.id
           known == actor \in UserRole /\ Exists(sampleReports, id)
       IN  /\ (sampleReports' # sampleReports \/ last'.res.success) =>
                (known /\ RolePermitted(actor, findReportById(sampleReports, id).status))
           /\ (known /\ RolePermitted(actor, findReportById(sampleReports, id).status)) =>
                last'.res.status # 403]_vars

\* A reader's update of a compliant report was applied.
C5_Witness ==
  /\ last.op = "PUT"
  /\ last.res.success
  /\ last.req.actor = "reader"
  /\ last.before.status = "compliant"
  /\ findReportById(sampleReports, last.req.id) # last.before

(***************************************************************************)
(* C6.  An update by a role that the policy denies for the report's        *)
(* current status never succeeds, whatever version it carries: it is       *)
(* answered Forbidden with the requester's role, the report's status and   *)
(* the required role ("admin" for immediate jeopardy), and the report is   *)
(* as it was.                                                              *)
(***************************************************************************)
DeniedUpdate ==
  /\ last.op = "PUT"
  /\ last.req.actor \in UserRole
  /\ last.before # Nothing
  /\ ~RolePermitted(last.req.actor, last.before.status)

C6_DeniedIsForbidden ==
  DeniedUpdate =>
    /\ IsForbidden(last.res, last.req.actor, last.before.status)
    /\ findReportById(sampleReports, last.req.id) = last.before

\* A denied role sent a stale version for a report in immediate jeopardy and
\* was answered Forbidden naming admin.
C6_Witness ==
  /\ DeniedUpdate
  /\ Carried(last) # last.before.version
  /\ last.before.status = "immediate_jeopardy"
  /\ last.res.status = 403
  /\ last.res.details.requiredRole = "admin"

(***************************************************************************)
(* C7.  A create by an editor or admin with a valid payload succeeds       *)
(* exactly when no stored report has the same facilityId, the same         *)
(* surveyType and a surveyDate in the same calendar year; otherwise it     *)
(* fails with Conflict carrying the facilityId, the surveyType and the id  *)
(* of a colliding report, and the store is unchanged.                      *)
(***************************************************************************)
Collides(report, body) ==
  /\ report.facilityId = body.facilityId
  /\ report.surveyType = body.surveyType
  /\ getFullYear(report.surveyDate) = getFullYear(newDate(body.surveyDate))

C7_CreateIffNoCollision ==
  [][(/\ Handles("POST")
      /\ last'.req.actor \in {"editor", "admin"}
      /\ createReportSchemaValid(last'.req.body)) =>
       LET body == last'.req.body
           colliding == {i \in 1..Len(sampleReports) : Collides(sampleReports[i], body)}
       IN  /\ last'.res.success <=> colliding = {}
           /\ colliding = {} =>
                /\ last'.res.status = 201
                /\ sampleReports' = Append(sampleReports, last'.res.data)
           /\ colliding # {} =>
                /\ last'.res.status = 409
                /\ last'.res.code = "CONFLICT"
                /\ last'.res.details.facilityId = body.facilityId
                /\ last'.res.details.surveyType = body.surveyType
                /\ \E i \in colliding :
                     last'.res.details.existingReportId = sampleReports[i].id
                /\ sampleReports' = sampleReports]_vars

\* A survey of the same facility and type was created for another year next to
\* the initial one, and creating it once more was refused naming the created one.
C7_Witness ==
  /\ last.op = "POST"
  /\ last.res.status = 409
  /\ last.res.details.existingReportId \notin SampleIds
  /\ \E i \in 1..Len(sampleReports) :
       /\ sampleReports[i].id \in SampleIds
       /\ sampleReports[i].facilityId = last.req.body.facilityId
       /\ sampleReports[i].surveyType = last.req.body.surveyType

(***************************************************************************)
(* C8.  No two distinct stored reports share facilityId, surveyType and    *)
(* the calendar year of surveyDate.                                        *)
(***************************************************************************)
C8_SurveysUnique ==
  \A i, j \in 1..Len(sampleReports) :
    (/\ sampleReports[i].facilityId = sampleReports[j].facilityId
     /\ sampleReports[i].surveyType = sampleReports[j].surveyType
     /\ getFullYear(sampleReports[i].surveyDate) = getFullYear(sampleReports[j].surveyDate))
      => i = j

(***************************************************************************)
(* C9.  A successful create stores a report with an id no stored report    *)
(* has, complianceScore 0, status compliant, no deficiencies, no notes,    *)
(* version 1, followUpRequired as supplied or else false,                  *)
(* correctiveActionDue as supplied or else 30 days after the time of the   *)
(* create, and the supplied fields.                                        *)
(***************************************************************************)
C9_CreateDefaults ==
  [][(Handles("POST") /\ last'.res.success) =>
       LET body == last'.req.body
           r == last'.res.data
       IN  /\ r.id \notin StoredIds(sampleReports)
           /\ sampleReports' = Append(sampleReports, r)
           /\ r.complianceScore = 0
           /\ r.status = "compliant"
           /\ r.deficiencies = << >>
           /\ r.surveyorNotes = << >>
           /\ r.version = 1
           /\ r.followUpRequired =
                (IF "followUpRequired" \in DOMAIN body THEN body.followUpRequired ELSE FALSE)
           /\ r.correctiveActionDue =
                (IF "correctiveActionDue" \in DOMAIN body
                 THEN body.correctiveActionDue.iso
                 ELSE now + 30)
           /\ r.createdAt = now
           /\ r.facilityId = body.facilityId
           /\ r.surveyType = body.surveyType
           /\ r.surveyDate = body.surveyDate.iso
           /\ r.leadSurveyor = body.leadSurveyor
           /\ r.surveyScope = body.surveyScope
           /\ r.accreditationBody = body.accreditationBody]_vars

\* A create that supplied neither followUpRequired nor correctiveActionDue
\* succeeded and the stored report carries the defaults.
C9_Witness ==
  /\ last.op = "POST"
  /\ last.res.success
  /\ DOMAIN last.req.body \cap {"followUpRequired", "correctiveActionDue"} = {}
  /\ findReportById(sampleReports, last.res.data.id).followUpRequired = FALSE
  /\ findReportById(sampleReports, last.res.data.id).correctiveActionDue =
       last.res.data.createdAt + 30

(***************************************************************************)
(* C10.  A reader's create or upload is answered 403 Forbidden whatever it *)
(* carries and leaves the store unchanged; an editor's or admin's create   *)
(* or upload is never answered 403.                                        *)
(***************************************************************************)
C10_ReaderDenied ==
  [][(Handles("POST") \/ Handles("UPLOAD")) =>
       /\ last'.req.actor = "reader" =>
            /\ last'.res.status = 403
            /\ last'.res.error = "Forbidden"
            /\ ~last'.res.success
            /\ sampleReports' = sampleReports
       /\ last'.req.actor \in {"editor", "admin"} => last'.res.status # 403]_vars

\* A reader's create with an invalid payload was answered 403, not 400.
C10_Witness ==
  /\ last.op = "POST"
  /\ last.req.actor = "reader"
  /\ ~createReportSchemaValid(last.req.body)
  /\ last.res.status = 403

(***************************************************************************)
(* C11.  The create answers with the persisted report while the            *)
(* notification it started is still pending, and the later outcome of the  *)
(* notification, sent or failed, changes neither the answer of a request   *)
(* nor any stored report.                                                  *)
(***************************************************************************)
C11_NotificationDetached ==
  [][/\ (Handles("POST") /\ last'.res.success) =>
          /\ sampleReports' = Append(sampleReports, last'.res.data)
          /\ Len(notifications') = Len(notifications) + 1
          /\ notifications'[Len(notifications')].reportId = last'.res.data.id
          /\ notifications'[Len(notifications')].state = "pending"
     /\ (\E i \in 1..Len(notifications) : notifications'[i].state # notifications[i].state) =>
          /\ sampleReports' = sampleReports
          /\ last' = last]_vars

\* The notification of the create answered last has failed; the answer stands
\* and the created report is stored as answered.
C11_Witness ==
  /\ last.op = "POST"
  /\ last.res.success
  /\ \E i \in 1..Len(notifications) :
       /\ notifications[i].reportId = last.res.data.id
       /\ notifications[i].state = "failed"
  /\ findReportById(sampleReports, last.res.data.id) = last.res.data

(***************************************************************************)
(* C12.  Each successful create starts exactly one notification attempt,   *)
(* for the report it has stored; no other step starts one, a failed create *)
(* in particular; an attempt that has ended as sent or failed is never     *)
(* taken up again; and every attempt eventually ends as sent or failed.    *)
(***************************************************************************)
OneAttemptPerCreatedReport ==
  /\ Len(notifications) = Len(sampleReports) - Len(initialReports)
  /\ \A i \in 1..Len(notifications) :
       /\ notifications[i].reportId = sampleReports[Len(initialReports) + i].id
       /\ notifications[i].state \in {"pending", "sent", "failed"}

AttemptsStartOnlyWithCreate ==
  /\ Len(notifications') =
       Len(notifications) + (IF Handles("POST") /\ last'.res.success THEN 1 ELSE 0)
  /\ \A i \in 1..Len(notifications) :
       notifications[i].state # "pending" => notifications'[i] = notifications[i]

Settled(i) == i <= Len(notifications) /\ notifications[i].state \in {"sent", "failed"}

C14_ReadIsOneCommittedVersion ==
  [][(Handles("GET") /\ last'.res.success /\ last'.req.query = NoQuery) =>
       /\ last'.res.data = findReportById(sampleReports, last'.req.id)
       /\ last'.res.data = findReportById(sampleReports', last'.req.id)]_vars

\* A report was read after an update of it: the answer carries the updated
\* fields together with the raised version.
C14_Witness ==
  /\ last.op = "GET"
  /\ last.res.success
  /\ updateCount[last.req.id] > 0
  /\ last.res.data.updatedAt >= ProcessStart
  /\ last.res.data.version > 1
  /\ last.res.data = findReportById(sampleReports, last.req.id)

(***************************************************************************)
(* C15.  Sending an update that has succeeded once more, word for word.    *)
(***************************************************************************)
\* The request handled in this step is the update that succeeded just before.
Resubmitted ==
  /\ last.op = "PUT"
  /\ last.res.success
  /\ Handles("PUT")
  /\ last'.req = last.req

C16_NoSpuriousConflict ==
  [][Handles("PUT") =>
       LET id == last'.req.id
           actor == last'.req.actor
           old == findReportById(sampleReports, id)
       IN  /\ (/\ Exists(sampleReports, id)
               /\ actor \in UserRole
               /\ RolePermitted(actor, old.status)
               /\ updateReportSchemaValid(last'.req.body)
               /\ Carried(last') = old.version) =>
                /\ last'.res.success
                /\ last'.res.status = 200
                /\ last'.res.data.version = old.version + 1
                /\ findReportById(sampleReports', id) = last'.res.data
           /\ (/\ last.op = "PUT"
               /\ last.res.status = 409
               /\ id = last.req.id
               /\ actor = last.req.actor
               /\ updateReportSchemaValid(last'.req.body)
               /\ Carried(last') = last.res.details.currentVersion) =>
                last'.res.success]_vars

\* An editor's update carrying the version an earlier update had left was
\* applied: the second update of that report.
C16_Witness ==
  /\ last.op = "PUT"
  /\ last.res.success
  /\ last.req.actor = "editor"
  /\ updateCount[last.req.id] = 2
  /\ Carried(last) = last.before.version
  /\ last.before.version > 1
  /\ last.res.data.version = last.before.version + 1

(***************************************************************************)
(* C17.  The range of complianceScore and the fate of an update that       *)
(* carries a score outside it.                                             *)
(***************************************************************************)
ScoresInRange ==
  \A i \in 1..Len(sampleReports) :
    sampleReports[i].complianceScore >= 0 /\ sampleReports[i].complianceScore <= 100

\* The update handled last was authenticated, went to an existing report and
\* carried a score outside 0..100.
ScoreOutOfRange ==
  /\ last.op = "PUT"
  /\ last.req.actor \in UserRole
  /\ last.before # Nothing
  /\ "complianceScore" \in DOMAIN last.req.body
  /\ (last.req.body.complianceScore < 0 \/ last.req.body.complianceScore > 100)

IsValidationError(res) == res.status = 400 /\ ~res.success /\ res.code = "VALIDATION_ERROR"

\* C17 as stated: every stored score is within 0..100, and every update that
\* carries a score outside the range is rejected as a validation error and
\* leaves the report as it was.
C17_OutOfRangeIsValidationError ==
  /\ ScoresInRange
  /\ ScoreOutOfRange =>
       /\ IsValidationError(last.res)
       /\ findReportById(sampleReports, last.req.id) = last.before

\* C17, amended: every stored score is within 0..100, and every update that
\* carries a score outside the range is rejected and leaves the report as it
\* was: as a validation error when the role is permitted for the report's
\* current status, as Forbidden when it is not.
C17_OutOfRangeIsRejected ==
  /\ ScoresInRange
  /\ ScoreOutOfRange =>
       /\ findReportById(sampleReports, last.req.id) = last.before
       /\ IF RolePermitted(last.req.actor, last.before.status)
          THEN IsValidationError(last.res)
          ELSE IsForbidden(last.res, last.req.actor, last.before.status)

\* An admin's update carrying score 150 at the stored version was rejected as a
\* validation error.
C17_Witness ==
  /\ ScoreOutOfRange
  /\ last.req.actor = "admin"
  /\ Carried(last) = last.before.version
  /\ IsValidationError(last.res)
  /\ findReportById(sampleReports, last.req.id).complianceScore = last.before.complianceScore

(***************************************************************************)
(* C18.  In an answer to include=deficiencies the deficiencies are in the  *)
(* {items, pagination} envelope exactly when the query supplied page or    *)
(* limit; with neither, they are the bare array.                           *)
(***************************************************************************)
\* The request handled last asked for the deficiencies of a report and got them.
DeficienciesAnswered ==
  /\ last.op = "GET"
  /\ last.res.success
  /\ "include" \in DOMAIN last.req.query
  /\ \E i \in 1..Len(last.req.query["include"]) : last.req.query["include"][i] = "deficiencies"
  /\ "deficiencies" \in DOMAIN last.res.data
  /\ "view" \in DOMAIN last.req.query => last.req.query["view"] # "summary"

C18_EnvelopeIffPaging ==
  DeficienciesAnswered =>
    (last.res.data.deficiencies.paginated <=>
       ("page" \in DOMAIN last.req.query \/ "limit" \in DOMAIN last.req.query))

(***************************************************************************)
(* C19.  With deficiencies.sortBy absent or severity and                   *)
(* deficiencies.order absent or desc, the deficiencies answered are in     *)
(* non-increasing severity rank (immediate_jeopardy 3, major 2, minor 1).  *)
(***************************************************************************)
SeverityRank(severity) ==
  CASE severity = "immediate_jeopardy" -> 3
    [] severity = "major" -> 2
    [] severity = "minor" -> 1

C19_SeverityDescending ==
  (/\ DeficienciesAnswered
   /\ "deficiencies.sortBy" \in DOMAIN last.req.query =>
        last.req.query["deficiencies.sortBy"] = "severity"
   /\ "deficiencies.order" \in DOMAIN last.req.query =>
        last.req.query["deficiencies.order"] = "desc") =>
    LET items == last.res.data.deficiencies.items
    IN  \A i, j \in 1..Len(items) :
          i < j => SeverityRank(items[i].severity) >= SeverityRank(items[j].severity)

(***************************************************************************)
(* C20.  With deficiencies.severity = s and include=deficiencies, every    *)
(* deficiency answered has severity s, totalItems is the number of stored  *)
(* deficiencies of severity s, and the pages 1..totalPages of the query    *)
(* hold exactly the stored deficiencies of severity s, each once.          *)
(***************************************************************************)
RECURSIVE SumOver(_, _)
SumOver(f, n) == IF n = 0 THEN 0 ELSE f[n] + SumOver(f, n - 1)

C20_SeverityFilterExact ==
  (DeficienciesAnswered /\ "deficiencies.severity" \in DOMAIN last.req.query) =>
    LET s == last.req.query["deficiencies.severity"]
        stored == last.before.deficiencies
        matching == {stored[i] : i \in {k \in 1..Len(stored) : stored[k].severity = s}}
        answer == last.res.data.deficiencies
        pageItems(p) ==
          formatDeficiencies(stored, ("page" :> p) @@ extendedOptions(last.req.query)).items
        pages == 1..answer.pagination.totalPages
        onPage == [p \in pages |-> {pageItems(p)[i] : i \in 1..Len(pageItems(p))}]
    IN  /\ \A i \in 1..Len(answer.items) : answer.items[i].severity = s
        /\ answer.pagination.totalItems = Cardinality(matching)
        /\ answer.pagination.currentPage \in pages =>
             answer.items = pageItems(answer.pagination.currentPage)
        /\ answer.pagination.currentPage \notin pages => answer.items = << >>
        /\ UNION {onPage[p] : p \in pages} = matching
        /\ SumOver([p \in pages |-> Len(pageItems(p))], answer.pagination.totalPages)
             = Cardinality(matching)

\* The second of two pages of the major deficiencies of a report was answered.
C20_Witness ==
  /\ DeficienciesAnswered
  /\ "deficiencies.severity" \in DOMAIN last.req.query
  /\ last.req.query["deficiencies.severity"] = "major"
  /\ last.res.data.deficiencies.pagination.totalPages = 2
  /\ last.res.data.deficiencies.pagination.currentPage = 2
  /\ Len(last.res.data.deficiencies.items) = 1
  /\ Len(last.before.deficiencies) > 2

(***************************************************************************)
(* C21.  With n deficiencies left by the filter, page p and limit L, the   *)
(* envelope holds the elements of the sorted list at positions             *)
(* [(p-1)*L, p*L), that is min(L, max(0, n-(p-1)*L)) items; totalItems is  *)
(* n, totalPages is ceil(n/L), itemsPerPage is L, hasPrev is p > 1,        *)
(* hasNext is p*L < n, which is p < totalPages; and the pages              *)
(* 1..totalPages, one after the other, are the sorted list.                *)
(***************************************************************************)
Min(a, b) == IF a < b THEN a ELSE b

Max(a, b) == IF a > b THEN a ELSE b

RECURSIVE Concat(_, _)
Concat(f, n) == IF n = 0 THEN << >> ELSE Concat(f, n - 1) \o f[n]

\* The deficiencies of the report read last, filtered and ordered as its query asks.
SortedForQuery ==
  LET q == last.req.query
      stored == last.before.deficiencies
      filtered == IF "deficiencies.severity" \in DOMAIN q
                  THEN SelectSeq(stored, LAMBDA d : d.severity = q["deficiencies.severity"])
                  ELSE stored
  IN  sort(filtered,
           IF "deficiencies.sortBy" \in DOMAIN q THEN q["deficiencies.sortBy"] ELSE "severity",
           IF "deficiencies.order" \in DOMAIN q THEN q["deficiencies.order"] ELSE "desc")

\* The page and the limit in force: the query's, else the schema's 1 and 20.
PageAsked == IF "page" \in DOMAIN last.req.query THEN last.req.query["page"] ELSE 1

LimitAsked == IF "limit" \in DOMAIN last.req.query THEN last.req.query["limit"] ELSE 20

C21_PaginationArithmetic ==
  (DeficienciesAnswered /\ last.res.data.deficiencies.paginated) =>
    LET n == Len(SortedForQuery)
        p == PageAsked
        L == LimitAsked
        answer == last.res.data.deficiencies
        pageItems(k) ==
          formatDeficiencies(last.before.deficiencies,
                             ("page" :> k) @@ extendedOptions(last.req.query)).items
        pages == 1..answer.pagination.totalPages
    IN  /\ p >= 1 /\ L \in 1..100
        /\ Len(answer.items) = Min(L, Max(0, n - (p - 1) * L))
        /\ \A i \in 1..Len(answer.items) : answer.items[i] = SortedForQuery[(p - 1) * L + i]
        /\ answer.pagination.currentPage = p
        /\ answer.pagination.totalItems = n
        /\ answer.pagination.totalPages * L >= n
        /\ (answer.pagination.totalPages - 1) * L < n \/ (n = 0 /\ answer.pagination.totalPages = 0)
        /\ answer.pagination.itemsPerPage = L
        /\ answer.pagination.hasPrev <=> p > 1
        /\ answer.pagination.hasNext <=> p * L < n
        /\ answer.pagination.hasNext <=> p < answer.pagination.totalPages
        /\ Concat([k \in pages |-> pageItems(k)], answer.pagination.totalPages) = SortedForQuery

\* The first of the two pages of a list of four deficiencies was answered.
C21_Witness ==
  /\ DeficienciesAnswered
  /\ Len(SortedForQuery) = 4 /\ PageAsked = 1 /\ LimitAsked = 2
  /\ Len(last.res.data.deficiencies.items) = 2
  /\ last.res.data.deficiencies.pagination.totalPages = 2
  /\ last.res.data.deficiencies.pagination.hasNext

(***************************************************************************)
(* C22.  The riskLevel of a summary is "high" when the report has an       *)
(* immediate_jeopardy deficiency, however many major ones it has;          *)
(* "medium" when it has none but more than 2 major deficiencies; "low"     *)
(* otherwise, so with exactly 2 major ones and with no deficiency at all.  *)
(***************************************************************************)
SummaryAnswered ==
  /\ last.op = "GET"
  /\ last.res.success
  /\ "view" \in DOMAIN last.req.query
  /\ last.req.query["view"] = "summary"

CountOf(deficiencies, severity) ==
  Cardinality({i \in 1..Len(deficiencies) : deficiencies[i].severity = severity})

C22_RiskLevel ==
  SummaryAnswered =>
    LET jeopardy == CountOf(last.before.deficiencies, "immediate_jeopardy")
        major == CountOf(last.before.deficiencies, "major")
    IN  /\ jeopardy >= 1 => last.res.data.riskLevel = "high"
        /\ (jeopardy = 0 /\ major > 2) => last.res.data.riskLevel = "medium"
        /\ (jeopardy = 0 /\ major <= 2) => last.res.data.riskLevel = "low"

\* A report with one immediate-jeopardy and three major deficiencies was
\* summarised as high risk.
C22_Witness ==
  /\ SummaryAnswered
  /\ CountOf(last.before.deficiencies, "immediate_jeopardy") = 1
  /\ CountOf(last.before.deficiencies, "major") = 3
  /\ last.res.data.riskLevel = "high"

(***************************************************************************)
(* C23.  An update by a reader, editor or admin addressed to a well-formed *)
(* id under which no report is stored is answered 404 with code NOT_FOUND  *)
(* in the failure envelope, and the store stays as it was.                 *)
(***************************************************************************)
IsNotFound(res) ==
  res.status = 404 /\ ~res.success /\ res.envelope /\ res.code = "NOT_FOUND"

C23_MissingIsNotFound ==
  [][(/\ Handles("PUT")
      /\ last'.req.actor \in UserRole
      /\ uuidSchema(last'.req.id)
      /\ ~Exists(sampleReports, last'.req.id))
     => (IsNotFound(last'.res) /\ sampleReports' = sampleReports)]_vars

(***************************************************************************)
(* C24.  An update by a reader, editor or admin whose id is not a          *)
(* well-formed UUID is answered 400 with code VALIDATION_ERROR.            *)
(***************************************************************************)
C24_MalformedIdIsValidationError ==
  [][(/\ Handles("PUT")
      /\ last'.req.actor \in UserRole
      /\ ~uuidSchema(last'.req.id))
     => IsValidationError(last'.res)]_vars

(***************************************************************************)
(* C25.  An update with an empty body and no If-Match header, sent by a    *)
(* role the policy permits for the report's status, succeeds whatever      *)
(* version the report is stored at.                                        *)
(***************************************************************************)
EmptyUpdate ==
  /\ last.op = "PUT"
  /\ DOMAIN last.req.body = {}
  /\ last.req.ifMatch = NoHeader
  /\ last.before # Nothing
  /\ RolePermitted(last.req.actor, last.before.status)

C25_EmptyUpdateSucceeds == EmptyUpdate => last.res.success

(***************************************************************************)
(* C26.  An update or a create that is answered with a failure leaves the  *)
(* store as it was: the same reports, each with every field, its version   *)
(* and its updatedAt unchanged.                                            *)
(***************************************************************************)
C26_FailureChangesNothing ==
  [][((Handles("PUT") \/ Handles("POST")) /\ ~last'.res.success)
     => sampleReports' = sampleReports]_vars

\* An update of a report that had been updated before was rejected as a
\* conflict; it carried another score, and the stored report is the one found
\* before the rejected update.
C26_Witness ==
  /\ last.op = "PUT"
  /\ last.res.status = 409
  /\ last.before # Nothing
  /\ updateCount[last.req.id] >= 1
  /\ "complianceScore" \in DOMAIN last.req.body
  /\ last.req.body.complianceScore # last.before.complianceScore
  /\ findReportById(sampleReports, last.req.id) = last.before

(***************************************************************************)
(* C27.  The shape of a report read is chosen by first match: with         *)
(* view=summary the summary, whatever include holds; else with a non-empty *)
(* include the included fields; else the stored report as it is, whatever  *)
(* deficiency filter, order and page the query carries.                    *)
(***************************************************************************)
SummaryShape ==
  {"id", "facilityId", "surveyType", "surveyDate", "status", "complianceScore", "riskLevel",
   "keyMetrics", "criticalIssues", "actionRequired", "executiveSummary"}

BasicAnswered ==
  /\ last.op = "GET"
  /\ last.res.success
  /\ "view" \in DOMAIN last.req.query => last.req.query["view"] # "summary"
  /\ "include" \in DOMAIN last.req.query
  /\ \E i \in 1..Len(last.req.query["include"]) : last.req.query["include"][i] = "basic"

C28_BasicIsExclusive ==
  BasicAnswered =>
    DOMAIN last.res.data =
      {"id", "facilityId", "surveyType", "complianceScore", "status", "surveyDate"}

(***************************************************************************)
(* C29.  Whether an update is permitted or denied depends on the actor's   *)
(* role and on the status the report is stored with, not on the payload:   *)
(* the same role sending any other payload to the same report in the same  *)
(* state gets the same decision; and a status an update has stored is the  *)
(* one the next decision is taken on.                                      *)
(***************************************************************************)
Denied(res) == res.status = 403

\* Payloads to compare an update with: each status, other fields, none, and an
\* invalid one, at the stored version and at the one before.
OtherPayloads(v) ==
  {AtVersion([status |-> st], v) : st \in SurveyStatus}
    \cup {AtVersion(ScoreFields, v), AtVersion(ScoreFields, v - 1), AtVersion(InvalidFields, v),
          EmptyBody}

C30_ReadsChangeNothing ==
  [][last'.op \in {"GET", "LIST"} => sampleReports' = sampleReports]_vars

\* The deficiencies of a report were answered in another order than they are
\* stored in, and the stored order is still the one the module was loaded with.
C30_Witness ==
  /\ DeficienciesAnswered
  /\ Len(last.res.data.deficiencies.items) = Len(last.before.deficiencies)
  /\ last.res.data.deficiencies.items # last.before.deficiencies
  /\ findReportById(sampleReports, last.req.id).deficiencies = last.before.deficiencies
  /\ sampleReports = initialReports

====
